---- MODULE Spec2Model ----
(***************************************************************************)
(* photomover.py: organising media files of a source tree into            *)
(* <dest>/<year>/<month>/ directories by capture date, with duplicate     *)
(* resolution, in live and dry-run mode.                                  *)
(*                                                                         *)
(* A string is a tuple of one-character strings, a path is a tuple of     *)
(* path components (each a string in that sense).                         *)
(***************************************************************************)
EXTENDS Integers, Sequences, FiniteSets, TLC

VARIABLES
    fs,               \* the filesystem's regular files: path -> [data, mtime]
    dirs,             \* the filesystem's directories: a set of paths
    src_dir,          \* args.src_dir
    dest_dir,         \* args.dest_dir
    dry_run,          \* args.dry_run
    move,             \* args.move
    ignore_dirs,      \* args.ignore_dirs
    pc,               \* position of the process: "walk", "flush", "tail", "done"
                      \* (date functions: "name", "batch", "dated")
    stack,            \* os.walk: directories still to list
    root,             \* os.walk: the directory whose listing is being iterated
    files,            \* the rest of `for filename in files`
    exif_batch_paths, \* organize_files: paths waiting for the metadata service
    pending,          \* the rest of `zip(exif_batch_paths, dates_taken)`
    dry_run_history,  \* the ledger: None in a live run, else destination -> source
    stats,            \* the module-level counters
    run,              \* number of the invocation of the program (1, 2, ...)
    log,              \* history: one record per call of process_file
    seen,             \* history: the files the walk of the current run has listed
    fs0,              \* history: the files when the current run started
    dirs0,            \* history: the directories when the current run started
    inFile,           \* date functions: the filename given to parse_filename
    inTags,           \* date functions: the metadata record given to the tag scan
    outDate,          \* date functions: what the function applied last returned
    outPath,          \* date functions: new_path of process_file for outDate
    faults            \* history: the files of the current run that met a failure

vars == <<fs, dirs, src_dir, dest_dir, dry_run, move, ignore_dirs, pc, stack,
          root, files, exif_batch_paths, pending, dry_run_history, stats, run,
          log, seen, fs0, dirs0, inFile, inTags, outDate, outPath, faults>>

\* Python's None, and a value that is not None: an optional value is a tuple
\* of at most one element
None == <<>>
Some(x) == <<x>>
Val(o) == o[1]

----------------------------------------------------------------------------
(* Characters and numbers *)

Digits == {"0", "1", "2", "3", "4", "5", "6", "7", "8", "9"}

\* int() of one digit character
DigitVal(c) ==
    CASE c = "0" -> 0 [] c = "1" -> 1 [] c = "2" -> 2 [] c = "3" -> 3
      [] c = "4" -> 4 [] c = "5" -> 5 [] c = "6" -> 6 [] c = "7" -> 7
      [] c = "8" -> 8 [] c = "9" -> 9

\* int() of a string of digits
RECURSIVE IntOf(_)
IntOf(s) ==
    IF s = <<>> THEN 0
    ELSE 10 * IntOf(SubSeq(s, 1, Len(s) - 1)) + DigitVal(s[Len(s)])

DigitChar(d) ==
    CASE d = 0 -> "0" [] d = 1 -> "1" [] d = 2 -> "2" [] d = 3 -> "3"
      [] d = 4 -> "4" [] d = 5 -> "5" [] d = 6 -> "6" [] d = 7 -> "7"
      [] d = 8 -> "8" [] d = 9 -> "9"

\* str() of a natural number
RECURSIVE StrOf(_)
StrOf(n) ==
    IF n < 10 THEN <<DigitChar(n)>>
    ELSE Append(StrOf(n \div 10), DigitChar(n % 10))

AllDigits(s) == \A i \in 1..Len(s) : s[i] \in Digits

----------------------------------------------------------------------------
(* datetime.strptime: the format is compiled into a regular expression of   *)
(* ordered alternatives per directive, matched with backtracking from the   *)
(* start of the string; the whole string must be consumed, and the fields   *)
(* must make a valid datetime.                                              *)

\* the digits of a directive's alternative: <<width, first characters, second characters>>
Alt2(a, b) == [w |-> 2, c1 |-> a, c2 |-> b]
Alt1(a) == [w |-> 1, c1 |-> a, c2 |-> {}]

\* _strptime.TimeRE: the alternatives of each directive, in the order the
\* regular expression tries them
DirectiveAlts(d) ==
    CASE d = "%m" -> <<Alt2({"1"}, {"0", "1", "2"}), Alt2({"0"}, Digits \ {"0"}),
                       Alt1(Digits \ {"0"})>>
      [] d = "%d" -> <<Alt2({"3"}, {"0", "1"}), Alt2({"1", "2"}, Digits),
                       Alt2({"0"}, Digits \ {"0"}), Alt1(Digits \ {"0"}),
                       Alt2({" "}, Digits \ {"0"})>>
      [] d = "%H" -> <<Alt2({"2"}, {"0", "1", "2", "3"}), Alt2({"0", "1"}, Digits),
                       Alt1(Digits)>>
      [] d = "%M" -> <<Alt2({"0", "1", "2", "3", "4", "5"}, Digits), Alt1(Digits)>>
      [] d = "%S" -> <<Alt2({"6"}, {"0", "1"}),
                       Alt2({"0", "1", "2", "3", "4", "5"}, Digits), Alt1(Digits)>>

Directives == {"%Y", "%m", "%d", "%H", "%M", "%S"}

AltMatches(s, pos, alt) ==
    /\ pos + alt.w - 1 <= Len(s)
    /\ s[pos] \in alt.c1
    /\ alt.w = 2 => s[pos + 1] \in alt.c2

\* the text an alternative matched, as a number (a leading space is skipped)
AltValue(s, pos, alt) ==
    IF alt.w = 2 /\ s[pos] = " " THEN DigitVal(s[pos + 1])
    ELSE IntOf(SubSeq(s, pos, pos + alt.w - 1))

\* format_regex.match(data_string): the ways to match fmt[k..] at s[pos..], in
\* the order the regular expression finds them: the alternatives of a
\* directive are tried in order, and an earlier directive is backtracked into
\* when a later one fails. A match carries the fields found and its end.
RECURSIVE ReMatch(_, _, _, _, _)
RECURSIVE ReAlts(_, _, _, _, _, _)
ReMatch(s, pos, fmt, k, found) ==
    IF k > Len(fmt) THEN <<[end |-> pos - 1, found |-> found]>>
    ELSE IF fmt[k] = "%Y" THEN
        IF pos + 3 <= Len(s) /\ AllDigits(SubSeq(s, pos, pos + 3))
        THEN ReMatch(s, pos + 4, fmt, k + 1,
                     [found EXCEPT !["%Y"] = IntOf(SubSeq(s, pos, pos + 3))])
        ELSE <<>>
    ELSE IF fmt[k] \in Directives THEN ReAlts(s, pos, fmt, k, found, 1)
    ELSE IF fmt[k] = " " THEN
        \* whitespace of the format is \s+ ; the inputs here hold single spaces
        IF pos <= Len(s) /\ s[pos] = " "
        THEN ReMatch(s, pos + 1, fmt, k + 1, found) ELSE <<>>
    ELSE IF pos <= Len(s) /\ s[pos] = fmt[k]
        THEN ReMatch(s, pos + 1, fmt, k + 1, found) ELSE <<>>

ReAlts(s, pos, fmt, k, found, a) ==
    IF a > Len(DirectiveAlts(fmt[k])) THEN <<>>
    ELSE (IF AltMatches(s, pos, DirectiveAlts(fmt[k])[a])
          THEN ReMatch(s, pos + DirectiveAlts(fmt[k])[a].w, fmt, k + 1,
                       [found EXCEPT ![fmt[k]] = AltValue(s, pos, DirectiveAlts(fmt[k])[a])])
          ELSE <<>>)
         \o ReAlts(s, pos, fmt, k, found, a + 1)

IsLeap(y) == (y % 4 = 0 /\ y % 100 # 0) \/ y % 400 = 0

DaysInMonth(y, m) ==
    IF m = 2 THEN (IF IsLeap(y) THEN 29 ELSE 28)
    ELSE IF m \in {4, 6, 9, 11} THEN 30 ELSE 31

\* _strptime's defaults for the fields a format does not name
FoundDefault ==
    [d \in Directives |-> IF d = "%Y" THEN 1900 ELSE IF d \in {"%m", "%d"} THEN 1 ELSE 0]

\* the datetime of the fields found, or None where datetime() rejects them
DatetimeOf(f) ==
    IF /\ f["%Y"] >= 1
       /\ f["%d"] <= DaysInMonth(f["%Y"], f["%m"])
       /\ f["%S"] <= 59
    THEN Some([year |-> f["%Y"], month |-> f["%m"], day |-> f["%d"],
               hour |-> f["%H"], minute |-> f["%M"], second |-> f["%S"]])
    ELSE None

\* the first match, checked
FirstMatch(s, matches) ==
    IF matches = <<>> THEN None                        \* "does not match format"
    ELSE IF matches[1].end # Len(s) THEN None          \* "unconverted data remains"
    ELSE DatetimeOf(matches[1].found)

\* datetime.strptime(s, fmt): Some(datetime), or None where Python raises ValueError
Strptime(s, fmt) == FirstMatch(s, ReMatch(s, 1, fmt, 1, FoundDefault))

----------------------------------------------------------------------------
(* parse_filename *)

\* One element of a pattern's group: a digit (\d), a separator ([-_]), an
\* underscore, or (after the group) a non-digit ([^0-9]).
ElemMatches(e, c) ==
    CASE e = "d" -> c \in Digits
      [] e = "-_" -> c \in {"-", "_"}
      [] e = "_" -> c = "_"
      [] e = "^d" -> c \notin Digits

D2 == <<"d", "d">>
D4 == <<"d", "d", "d", "d">>
D6 == D4 \o D2
D8 == D4 \o D4

\* date_patterns: the group of each pattern, what must follow the group, and
\* the parser's formats (the one used when the group holds a '-', the other)
date_patterns == <<
    [group |-> D4 \o <<"-_">> \o D2 \o <<"-_">> \o D2 \o <<"-_">> \o D2
               \o <<"-_">> \o D2 \o <<"-_">> \o D2,
     after |-> <<>>,
     dash |-> <<"%Y", "-", "%m", "-", "%d", "-", "%H", "-", "%M", "-", "%S">>,
     other |-> <<"%Y", "_", "%m", "_", "%d", "_", "%H", "_", "%M", "_", "%S">>],
    [group |-> D8 \o <<"_">> \o D6, after |-> <<>>,
     dash |-> <<"%Y", "%m", "%d", "_", "%H", "%M", "%S">>,
     other |-> <<"%Y", "%m", "%d", "_", "%H", "%M", "%S">>],
    [group |-> D8 \o D6, after |-> <<>>,
     dash |-> <<"%Y", "%m", "%d", "%H", "%M", "%S">>,
     other |-> <<"%Y", "%m", "%d", "%H", "%M", "%S">>],
    [group |-> D4 \o <<"-_">> \o D2 \o <<"-_">> \o D2, after |-> <<>>,
     dash |-> <<"%Y", "-", "%m", "-", "%d">>,
     other |-> <<"%Y", "_", "%m", "_", "%d">>],
    [group |-> D8, after |-> <<"^d">>,
     dash |-> <<"%Y", "%m", "%d">>,
     other |-> <<"%Y", "%m", "%d">>] >>

\* the group and what follows it match the filename at position p
BodyMatchesAt(filename, p, pat) ==
    LET body == pat.group \o pat.after IN
    /\ p + Len(body) - 1 <= Len(filename)
    /\ \A i \in 1..Len(body) : ElemMatches(body[i], filename[p + i - 1])

\* re.search(pattern, filename).group(1), or None. Every pattern starts with
\* [^0-9]* and its group with \d, so the leftmost match is the leftmost
\* position at which the group (and what must follow it) matches; the
\* trailing [^0-9]* always matches.
ReSearchGroup(pat, filename) ==
    LET ps == {p \in 1..Len(filename) : BodyMatchesAt(filename, p, pat)} IN
    IF ps = {} THEN None
    ELSE LET p == CHOOSE q \in ps : \A o \in ps : q <= o
         IN Some(SubSeq(filename, p, p + Len(pat.group) - 1))

\* the lambda of a pattern
PatternParser(pat, d) ==
    IF \E i \in 1..Len(d) : d[i] = "-" THEN Strptime(d, pat.dash)
    ELSE Strptime(d, pat.other)

RECURSIVE ParseFrom(_, _)
ParseFrom(filename, k) ==
    IF k > Len(date_patterns) THEN None
    ELSE LET date_str == ReSearchGroup(date_patterns[k], filename) IN
         IF date_str = None THEN ParseFrom(filename, k + 1)
         ELSE LET d == PatternParser(date_patterns[k], Val(date_str)) IN
              IF d = None THEN ParseFrom(filename, k + 1)   \* except ValueError: continue
              ELSE d

\* the names of the model's source trees, parsed once
NameDated == <<"2", "0", "2", "3", "0", "6", "1", "5", ".", "j">>
NamePlain == <<"a", ".", "j">>
\* the names a walk can meet: the two names, and the names resolve_duplicate
\* derives from them by suffixing a counter once or twice
CounterSuffixes == {<<"_", c>> : c \in {"1", "2", "3", "4"}}
WalkNames ==
    LET sfx == {<<>>} \cup CounterSuffixes \cup {a \o b : a, b \in CounterSuffixes}
        stem(n) == SubSeq(n, 1, Len(n) - 2)
    IN {stem(n) \o s \o <<".", "j">> : n \in {NameDated, NamePlain}, s \in sfx}
ParsedNames == [n \in WalkNames |-> ParseFrom(n, 1)]

parse_filename(filename) ==
    IF filename \in DOMAIN ParsedNames THEN ParsedNames[filename]
    ELSE ParseFrom(filename, 1)

\* validate_parsed_date: returns its argument
validate_parsed_date(parsed_date) == parsed_date

----------------------------------------------------------------------------
(* get_date_taken_batch: the scan of one metadata record *)

date_tags == <<"EXIF:DateTimeOriginal", "QuickTime:CreateDate", "QuickTime:CreationDate">>

ExifFormat == <<"%Y", ":", "%m", ":", "%d", " ", "%H", ":", "%M", ":", "%S">>

\* metadata is a record of the service: tag -> optional string, None for a tag
\* it lacks (metadata.get(tag)); the empty string is falsy
RECURSIVE TagScan(_, _)
TagScan(metadata, k) ==
    IF k > Len(date_tags) THEN None
    ELSE LET date_str == metadata[date_tags[k]] IN
         IF date_str = None \/ Val(date_str) = <<>> THEN TagScan(metadata, k + 1)
         ELSE LET date_taken == Strptime(Val(date_str), ExifFormat) IN
              IF date_taken # None THEN Some(validate_parsed_date(Val(date_taken)))
              ELSE TagScan(metadata, k + 1)


----------------------------------------------------------------------------
(* Paths and the filesystem *)

\* os.path.join(d, name), os.path.basename(p), os.path.dirname(p)
Join(d, name) == Append(d, name)
Basename(p) == p[Len(p)]
Dirname(p) == SubSeq(p, 1, Len(p) - 1)

\* the n-th ancestors of a path, the path included (os.makedirs creates them)
Ancestors(p) == {SubSeq(p, 1, n) : n \in 1..Len(p)}

\* os.path.splitext on the last component: the extension starts at the last
\* dot that is not among the leading dots of the name
SplitextAt(name) ==
    LET dots == {i \in 1..Len(name) :
                    /\ name[i] = "."
                    /\ \E j \in 1..(i - 1) : name[j] # "."}
    IN IF dots = {} THEN Len(name) + 1
       ELSE CHOOSE i \in dots : \A j \in dots : j <= i

\* f"{base}_{counter}{extension}" for the path new_path
SuffixedPath(new_path, counter) ==
    LET name == Basename(new_path)
        k == SplitextAt(name)
    IN Join(Dirname(new_path),
            SubSeq(name, 1, k - 1) \o <<"_">> \o StrOf(counter)
                \o SubSeq(name, k, Len(name)))

\* os.path.exists
Exists(f, ds, p) == p \in DOMAIN f \/ p \in ds

\* os.stat's signature of filecmp: (type, size, mtime); every file of the
\* model is a regular file
Sig(file) == <<Len(file.data), file.mtime>>

\* filecmp.cmp(f1, f2) with its default shallow=True: equal signatures are
\* taken for equal files, and only otherwise are sizes and bytes compared.
\* A directory is no regular file: False.
filecmp_cmp(f, f1, f2) ==
    IF f1 \notin DOMAIN f \/ f2 \notin DOMAIN f THEN FALSE
    ELSE IF Sig(f[f1]) = Sig(f[f2]) THEN TRUE
    ELSE IF Len(f[f1].data) # Len(f[f2].data) THEN FALSE
    ELSE f[f1].data = f[f2].data

\* the function f with key k set to v (a dict assignment, a file creation)
Put(f, k, v) == [x \in DOMAIN f \cup {k} |-> IF x = k THEN v ELSE f[x]]
\* the function f without key k (os.remove)
Drop(f, k) == [x \in DOMAIN f \ {k} |-> f[x]]

\* the orders in which a directory listing (os.scandir) may return the
\* entries S: any
Listings(S) ==
    {s \in [1..Cardinality(S) -> S] : \A x \in S : \E i \in 1..Cardinality(S) : s[i] = x}

----------------------------------------------------------------------------
(* resolve_duplicate *)

\* truth value of dry_run_history: None and the empty dict are both false
Truthy(history) == history # None /\ DOMAIN Val(history) # {}

\* the condition of the while loop
Claimed(f, ds, history, new_path) ==
    \/ Truthy(history) /\ new_path \in DOMAIN Val(history)
    \/ ~Truthy(history) /\ Exists(f, ds, new_path)

\* mutant of ResolveLoop: the suffixed path is returned without asking
\* whether it is claimed as well
ResolveLoop_NoRecheck(f, ds, history, orig_path, source_path, new_path, counter) ==
    IF ~Claimed(f, ds, history, new_path) THEN Some(new_path)
    ELSE LET dest_compare == IF Truthy(history) THEN Val(history)[new_path]
                             ELSE new_path
         IN IF filecmp_cmp(f, source_path, dest_compare) THEN None
            ELSE Some(SuffixedPath(orig_path, counter))

\* mutant of ResolveLoop: every comparison is made with the file at the path
\* the function was called with
ResolveLoop_CompareFirst(f, ds, history, orig_path, source_path, new_path, counter) ==
    LET RECURSIVE Loop(_, _)
        Loop(np, c) ==
            IF ~Claimed(f, ds, history, np) THEN Some(np)
            ELSE LET dest_compare == IF Truthy(history) THEN Val(history)[orig_path]
                                     ELSE orig_path
                 IN IF filecmp_cmp(f, source_path, dest_compare) THEN None
                    ELSE Loop(SuffixedPath(orig_path, c), c + 1)
    IN Loop(new_path, counter)

\* the loop from the state (new_path, counter); base and extension are those
\* of the path the function was called with
RECURSIVE ResolveLoop(_, _, _, _, _, _, _)
ResolveLoop(f, ds, history, orig_path, source_path, new_path, counter) ==
    IF ~Claimed(f, ds, history, new_path) THEN Some(new_path)
    ELSE LET dest_compare == IF Truthy(history) THEN Val(history)[new_path]
                             ELSE new_path
         IN IF filecmp_cmp(f, source_path, dest_compare) THEN None
            ELSE ResolveLoop(f, ds, history, orig_path, source_path,
                             SuffixedPath(orig_path, counter), counter + 1)

resolve_duplicate(f, ds, new_path, source_path, history) ==
    ResolveLoop(f, ds, history, new_path, source_path, new_path, 1)

----------------------------------------------------------------------------
(* process_file *)

\* the default of --no-date-dir
no_date_dir == <<"u", "n", "k", "n", "o", "w", "n", "-", "d", "a", "t", "e">>

\* date_taken.strftime('%Y'): the C library's year, not padded to four digits
StrftimeY(d) == StrOf(d.year)

\* date_taken.strftime('%m')
StrftimeM(d) == IF d.month < 10 THEN <<"0">> \o StrOf(d.month) ELSE StrOf(d.month)

\* date_taken.strftime('%b').lower(), in the C locale
StrftimeBLower(d) ==
    CASE d.month = 1 -> <<"j", "a", "n">> [] d.month = 2 -> <<"f", "e", "b">>
      [] d.month = 3 -> <<"m", "a", "r">> [] d.month = 4 -> <<"a", "p", "r">>
      [] d.month = 5 -> <<"m", "a", "y">> [] d.month = 6 -> <<"j", "u", "n">>
      [] d.month = 7 -> <<"j", "u", "l">> [] d.month = 8 -> <<"a", "u", "g">>
      [] d.month = 9 -> <<"s", "e", "p">> [] d.month = 10 -> <<"o", "c", "t">>
      [] d.month = 11 -> <<"n", "o", "v">> [] d.month = 12 -> <<"d", "e", "c">>

\* new_dir of process_file for an optional date
NewDir(dest, date_taken) ==
    IF date_taken = None THEN Join(dest, no_date_dir)
    ELSE Join(Join(dest, StrftimeY(Val(date_taken))),
              StrftimeM(Val(date_taken)) \o <<"-">> \o StrftimeBLower(Val(date_taken)))

\* new_path of process_file
NewPath(dest, date_taken, file_path) ==
    Join(NewDir(dest, date_taken), Basename(file_path))

\* locale.setlocale(locale.LC_ALL, '') takes the locale of the environment,
\* and '%b' is that locale's abbreviated month name: the C locale's above, or
\* for instance the French one's
Locales == {"C", "fr_FR"}
StrftimeBLowerIn(lc, d) ==
    IF lc = "C" THEN StrftimeBLower(d)
    ELSE << <<"j", "a", "n", "v", ".">>, <<"f", "é", "v", "r", ".">>,
            <<"m", "a", "r", "s">>, <<"a", "v", "r", ".">>, <<"m", "a", "i">>,
            <<"j", "u", "i", "n">>, <<"j", "u", "i", "l", ".">>,
            <<"a", "o", "û", "t">>, <<"s", "e", "p", "t", ".">>,
            <<"o", "c", "t", ".">>, <<"n", "o", "v", ".">>,
            <<"d", "é", "c", ".">> >>[d.month]

\* new_dir of process_file in the locale lc
NewDirIn(lc, dest, date_taken) ==
    IF date_taken = None THEN Join(dest, no_date_dir)
    ELSE Join(Join(dest, StrftimeY(Val(date_taken))),
              StrftimeM(Val(date_taken)) \o <<"-">> \o StrftimeBLowerIn(lc, Val(date_taken)))

Bump(st, key) == [st EXCEPT ![key] = @ + 1]

\* mutant of RemoveDuplicateSource: the dry_run flag is not consulted
RemoveDuplicateSource_InDryRun(f, file_path) ==
    IF move THEN Drop(f, file_path) ELSE f

\* mutant of RemoveDuplicateSource: the move flag is not consulted
RemoveDuplicateSource_InCopy(f, file_path) ==
    IF ~dry_run THEN Drop(f, file_path) ELSE f

\* os.remove(file_path) of the duplicate branch, under its condition
RemoveDuplicateSource(f, file_path) ==
    IF move /\ ~dry_run THEN Drop(f, file_path) ELSE f

\* shutil.move / shutil.copy2 of the placing branch, under their conditions:
\* the destination gets the source's bytes and modification time
Transfer(f, file_path, fixed_new_path) ==
    IF dry_run THEN f
    ELSE IF move THEN Put(Drop(f, file_path), fixed_new_path, f[file_path])
    ELSE Put(f, fixed_new_path, f[file_path])

\* mutant of CountDuplicate: a duplicate is counted as processed as well
CountDuplicate_AlsoProcessed(st) == Bump(Bump(st, "duplicates"), "processed")

\* the counters after the duplicate branch / the placing branch
CountDuplicate(st) == Bump(st, "duplicates")
CountProcessed(st) == Bump(st, "processed")

\* process_file(file_path, date_taken, ...): the next values of the
\* filesystem, the ledger and the counters, and the history record
process_file(file_path, date_taken) ==
    \E new_dir \in {NewDir(dest_dir, date_taken)} :
    \E new_path \in {Join(new_dir, Basename(file_path))} :
    \E fixed_new_path \in {resolve_duplicate(fs, dirs, new_path, file_path, dry_run_history)} :
    \E st1 \in {IF date_taken = None THEN Bump(stats, "nodate") ELSE stats} :
    \E st2 \in {IF Some(new_path) # fixed_new_path THEN Bump(st1, "renamed") ELSE st1} :
    \E clobbered \in {/\ fixed_new_path # None
                      /\ IF dry_run
                         THEN Val(fixed_new_path) \in DOMAIN Val(dry_run_history)
                         ELSE Val(fixed_new_path) \in DOMAIN fs} :
       /\ log' = Append(log, [run |-> run, dry_run |-> dry_run, move |-> move,
                              file_path |-> file_path, date_taken |-> date_taken,
                              new_path |-> new_path, fixed_new_path |-> fixed_new_path,
                              clobbered |-> clobbered])
       /\ IF fixed_new_path = None
          THEN /\ stats' = CountDuplicate(st2)
               /\ fs' = RemoveDuplicateSource(fs, file_path)
               /\ UNCHANGED <<dirs, dry_run_history>>
          ELSE /\ stats' = CountProcessed(st2)
               /\ fs' = Transfer(fs, file_path, Val(fixed_new_path))
               /\ dirs' = IF dry_run THEN dirs ELSE dirs \cup Ancestors(new_dir)
               /\ dry_run_history' =
                      IF dry_run
                      THEN Some(Put(Val(dry_run_history), Val(fixed_new_path), file_path))
                      ELSE dry_run_history

----------------------------------------------------------------------------
(* The metadata service and get_date_taken_batch *)

\* file contents of the model: two contents of the same size and a longer one,
\* and what the metadata service reads in each (the tags are part of the bytes)
DataX == <<1>>
DataY == <<2>>
DataZ == <<1, 2>>

ExifOf(data) ==
    [t \in {date_tags[i] : i \in 1..Len(date_tags)} |->
        IF data = DataX /\ t = "EXIF:DateTimeOriginal"
        THEN Some(<<"2", "0", "2", "3", ":", "0", "6", ":", "1", "5", " ",
                    "1", "0", ":", "0", "0", ":", "0", "0">>)
        ELSE None]

\* the records of the model's contents, scanned once
ScannedRecords == [m \in {ExifOf(d) : d \in {DataX, DataY, DataZ}} |-> TagScan(m, 1)]

\* the date of one record
DateOfRecord(metadata) ==
    IF metadata \in DOMAIN ScannedRecords THEN ScannedRecords[metadata]
    ELSE TagScan(metadata, 1)

\* ExifTool.get_metadata(filepaths): one record per path, in the order of the paths
get_metadata(f, filepaths) == [i \in 1..Len(filepaths) |-> ExifOf(f[filepaths[i]].data)]

\* mutant of get_date_taken_batch: the dates come back in the reverse order
get_date_taken_batch_Reversed(f, filepaths) ==
    LET metadata_list == get_metadata(f, filepaths)
        n == Len(metadata_list)
    IN [i \in 1..n |-> DateOfRecord(metadata_list[n + 1 - i])]

\* get_date_taken_batch(filepaths): one optional date per record
get_date_taken_batch(f, filepaths) ==
    LET metadata_list == get_metadata(f, filepaths)
    IN [i \in 1..Len(metadata_list) |-> DateOfRecord(metadata_list[i])]

\* zip(exif_batch_paths, dates_taken)
Zip(a, b) ==
    LET n == IF Len(a) < Len(b) THEN Len(a) ELSE Len(b)
    IN [i \in 1..n |-> <<a[i], b[i]>>]

----------------------------------------------------------------------------
(* The runs of the model *)

\* the batch size: 100 in the program, here a bound of the model
EXIF_TOOL_BATCH_SIZE == 2

\* most files in the source tree when the first run starts
MaxFiles == 2
\* most invocations of the program in one behaviour
MaxRuns == 2

C_S == <<"S">>
C_D == <<"D">>
C_sub == <<"s", "u", "b">>
C_tmp == <<"t", "m", "p">>

\* NameDated carries a date (pattern YYYYMMDD followed by a non-digit),
\* NamePlain carries none

SrcDir == <<C_S>>
SrcPaths == {Join(d, n) : d \in {SrcDir, Join(SrcDir, C_sub)}, n \in {NameDated, NamePlain}}
\* a file in a directory that --ignore-dirs names
IgnoredPath == Join(Join(SrcDir, C_tmp), NameDated)

\* files: some bytes at some time; other bytes of the same size at the same
\* time (the same signature); the same bytes at another time; bytes of
\* another size
FileVals == {[data |-> DataX, mtime |-> 1], [data |-> DataY, mtime |-> 1],
             [data |-> DataX, mtime |-> 2], [data |-> DataZ, mtime |-> 1]}

SourceTrees ==
    UNION {{t \in [P -> FileVals] :
                IgnoredPath \in P => t[IgnoredPath] = [data |-> DataX, mtime |-> 1]} :
              P \in {Q \in SUBSET (SrcPaths \cup {IgnoredPath}) : Cardinality(Q) <= MaxFiles}}

\* what the destination may hold before the first run: nothing, or one file
\* in the directory of June 2023 or in the no-date directory
DestPaths(dest) ==
    {Join(NewDir(dest, parse_filename(NameDated)), NameDated),
     Join(NewDir(dest, None), NamePlain)}

DestTrees(dest) == {<<>>} \cup UNION {[{p} -> FileVals] : p \in DestPaths(dest)}

Merge(a, b) == [x \in DOMAIN a \cup DOMAIN b |-> IF x \in DOMAIN a THEN a[x] ELSE b[x]]

ZeroStats == [processed |-> 0, nodate |-> 0, duplicates |-> 0, renamed |-> 0]

\* no failure so far: of the metadata service for a batch, its output being
\* no JSON or holding fewer records than paths (the paths of the batch), of
\* the filesystem for a placement (the path of the file)
NoFaults == [unparsable |-> {}, short |-> {}, placement |-> {}]

Init ==
    \E st \in SourceTrees, dd \in {<<C_D>>, SrcDir}, dr \in BOOLEAN, mv \in BOOLEAN :
      \E dt \in DestTrees(dd) :
        /\ fs = Merge(st, dt)
        /\ dirs = {SrcDir} \cup UNION {Ancestors(Dirname(p)) : p \in DOMAIN st \cup DOMAIN dt}
        /\ src_dir = SrcDir
        /\ dest_dir = dd
        /\ dry_run = dr
        /\ move = mv
        /\ ignore_dirs = {C_tmp}
        /\ pc = "walk"
        /\ stack = <<SrcDir>>
        /\ root = SrcDir
        /\ files = <<>>
        /\ exif_batch_paths = <<>>
        /\ pending = <<>>
        /\ dry_run_history = IF dr THEN Some(<<>>) ELSE None
        /\ stats = ZeroStats
        /\ run = 1
        /\ log = <<>>
        /\ seen = <<>>
        /\ fs0 = Merge(st, dt)
        /\ dirs0 = {SrcDir} \cup UNION {Ancestors(Dirname(p)) : p \in DOMAIN st \cup DOMAIN dt}
        /\ inFile = <<>>
        /\ inTags = ExifOf(DataY)
        /\ outDate = None
        /\ outPath = <<>>
        /\ faults = NoFaults

dateVars == <<inFile, inTags, outDate, outPath>>
config == <<src_dir, dest_dir, dry_run, move, ignore_dirs>>
start == <<fs0, dirs0>>

\* os.walk, top-down: the next directory is listed; its subdirectories, less
\* the ignored names, will be visited after its files
WalkDir ==
    /\ pc = "walk" /\ files = <<>> /\ stack # <<>>
    /\ LET top == Head(stack)
           subdirs == {d \in dirs : Len(d) = Len(top) + 1 /\ Dirname(d) = top
                                    /\ Basename(d) \notin ignore_dirs}
           names == {Basename(p) : p \in {q \in DOMAIN fs : Dirname(q) = top}}
       IN /\ root' = top
          /\ files' \in Listings(names)
          /\ \E listed \in Listings(subdirs) : stack' = listed \o Tail(stack)
          /\ seen' = Merge(seen, [p \in {Join(top, n) : n \in names} |-> fs[p]])
    /\ UNCHANGED <<fs, dirs, config, pc, exif_batch_paths, pending, dry_run_history,
                   stats, run, log, start, dateVars, faults>>

\* a file whose name carries a date is processed at once
FileDated ==
    /\ pc = "walk" /\ files # <<>>
    /\ \E date_taken \in {parse_filename(Head(files))} :
          /\ date_taken # None
          /\ \E file_path \in {Join(root, Head(files))} : process_file(file_path, date_taken)
    /\ files' = Tail(files)
    /\ UNCHANGED <<config, pc, stack, root, exif_batch_paths, pending, run, seen, start,
                   dateVars, faults>>

\* a file whose name carries none waits in the batch; a full batch is resolved
FileQueued ==
    /\ pc = "walk" /\ files # <<>>
    /\ parse_filename(Head(files)) = None
    /\ \E batch \in {Append(exif_batch_paths, Join(root, Head(files)))} :
          /\ exif_batch_paths' = batch
          /\ IF Len(batch) >= EXIF_TOOL_BATCH_SIZE
             THEN /\ pending' = Zip(batch, get_date_taken_batch(fs, batch))
                  /\ pc' = "flush"
             ELSE UNCHANGED <<pending, pc>>
    /\ files' = Tail(files)
    /\ UNCHANGED <<fs, dirs, config, stack, root, dry_run_history, stats, run, log,
                   seen, start, dateVars, faults>>

\* one turn of `for path, date in zip(...)`, in the walk or after it
FlushStep ==
    /\ pc \in {"flush", "tail"} /\ pending # <<>>
    /\ \E file_path \in {Head(pending)[1]}, date_taken \in {Head(pending)[2]} :
          process_file(file_path, date_taken)
    /\ pending' = Tail(pending)
    /\ IF Tail(pending) # <<>> THEN UNCHANGED <<pc, exif_batch_paths>>
       ELSE IF pc = "flush" THEN pc' = "walk" /\ exif_batch_paths' = <<>>
       ELSE pc' = "done" /\ UNCHANGED exif_batch_paths
    /\ UNCHANGED <<config, stack, root, files, run, seen, start, dateVars, faults>>

\* the walk is over and files still wait in the batch
TailBatch ==
    /\ pc = "walk" /\ files = <<>> /\ stack = <<>>
    /\ exif_batch_paths # <<>>
    /\ pending' = Zip(exif_batch_paths, get_date_taken_batch(fs, exif_batch_paths))
    /\ pc' = "tail"
    /\ UNCHANGED <<fs, dirs, config, stack, root, files, exif_batch_paths,
                   dry_run_history, stats, run, log, seen, start, dateVars, faults>>

\* the walk is over and the batch is empty
Finish ==
    /\ pc = "walk" /\ files = <<>> /\ stack = <<>>
    /\ exif_batch_paths = <<>>
    /\ pc' = "done"
    /\ UNCHANGED <<fs, dirs, config, stack, root, files, exif_batch_paths, pending,
                   dry_run_history, stats, run, log, seen, start, dateVars, faults>>

\* the program is started again on what the last run left, for real
StartRun ==
    /\ pc = "done" /\ run < MaxRuns
    /\ run' = run + 1
    /\ dry_run' = FALSE
    /\ dry_run_history' = None
    /\ stats' = ZeroStats
    /\ pc' = "walk"
    /\ stack' = <<src_dir>>
    /\ root' = src_dir
    /\ files' = <<>>
    /\ exif_batch_paths' = <<>>
    /\ pending' = <<>>
    /\ seen' = <<>>
    /\ fs0' = fs
    /\ dirs0' = dirs
    /\ UNCHANGED <<fs, dirs, src_dir, dest_dir, move, ignore_dirs, log, dateVars, faults>>

Next == WalkDir \/ FileDated \/ FileQueued \/ FlushStep \/ TailBatch \/ Finish \/ StartRun

Spec == Init /\ [][Next]_vars

\* a started run goes on until it is over (one thread, no blocking call that
\* fails to return); whether the program is started again is up to the user
RunStep == WalkDir \/ FileDated \/ FileQueued \/ FlushStep \/ TailBatch \/ Finish
SpecFair == Spec /\ WF_vars(RunStep)

----------------------------------------------------------------------------
(* The date of one file, by its name and then by its metadata record *)

\* filenames for every pattern of parse_filename, with years far from today,
\* a month 13, no date at all, and a run of thirteen digits (a time in
\* milliseconds)
DateNames ==
    {<<"2", "0", "2", "3", "-", "0", "6", "-", "1", "5", "-", "1", "0", "-", "3", "0", "-", "0", "0", ".", "j">>,
     <<"1", "8", "0", "0", "_", "0", "1", "_", "0", "1", "_", "0", "0", "_", "0", "0", "_", "0", "0", ".", "j">>,
     <<"2", "0", "2", "3", "0", "6", "1", "5", "_", "1", "0", "3", "0", "0", "0", ".", "j">>,
     <<"9", "9", "9", "9", "1", "2", "3", "1", "2", "3", "5", "9", "5", "9", ".", "j">>,
     <<"0", "0", "0", "1", "-", "0", "1", "-", "0", "1", ".", "j">>,
     <<"1", "8", "0", "0", "0", "6", "1", "5", ".", "j">>,
     <<"2", "0", "2", "3", "1", "3", "1", "5", ".", "j">>,
     <<"a", ".", "j">>,
     <<"x", "2", "0", "2", "3", "0", "6", "1", "5", ".", "j">>,
     <<"1", "6", "8", "6", "8", "2", "5", "0", "6", "1", "2", "1", "5", ".", "j">>,
     <<"2", "0", "2", "3", "-", "1", "3", "-", "0", "1", " ", "2", "0", "2", "2", "0", "1", "0", "1", ".", "j">>}

\* the record of the metadata service with these values of the three tags
TagRecord(v1, v2, v3) ==
    [t \in {date_tags[i] : i \in 1..Len(date_tags)} |->
        IF t = date_tags[1] THEN v1 ELSE IF t = date_tags[2] THEN v2 ELSE v3]

\* records: a date in each tag, years far from today, values that do not
\* parse, the empty string, no tag
DateRecords ==
    {TagRecord(Some(<<"2", "0", "2", "3", ":", "0", "6", ":", "1", "5", " ", "1", "0", ":", "0", "0", ":", "0", "0">>),
               None,
               None),
     TagRecord(Some(<<"1", "8", "0", "0", ":", "0", "1", ":", "0", "1", " ", "0", "0", ":", "0", "0", ":", "0", "0">>),
               None,
               None),
     TagRecord(Some(<<"9", "9", "9", "9", ":", "1", "2", ":", "3", "1", " ", "2", "3", ":", "5", "9", ":", "5", "9">>),
               None,
               None),
     TagRecord(None,
               Some(<<"2", "0", "2", "3", ":", "0", "6", ":", "1", "5", " ", "1", "0", ":", "0", "0", ":", "0", "0">>),
               None),
     TagRecord(Some(<<"x">>),
               Some(<<"0", "0", "0", "1", ":", "0", "1", ":", "0", "1", " ", "0", "0", ":", "0", "0", ":", "0", "0">>),
               None),
     TagRecord(None,
               None,
               None),
     TagRecord(Some(<<>>),
               None,
               Some(<<"2", "0", "2", "3", ":", "0", "6", ":", "1", "5", " ", "1", "0", ":", "0", "0", ":", "0", "0">>)),
     TagRecord(Some(<<"2", "0", "2", "3", ":", "0", "2", ":", "3", "0", " ", "1", "0", ":", "0", "0", ":", "0", "0">>),
               None,
               None)}

InitDate ==
    /\ inFile \in DateNames
    /\ inTags \in DateRecords
    /\ outDate = None
    /\ outPath = <<>>
    /\ faults = NoFaults
    /\ pc = "name"
    /\ fs = <<>> /\ dirs = {SrcDir} /\ fs0 = <<>> /\ dirs0 = {SrcDir}
    /\ src_dir = SrcDir /\ dest_dir = <<C_D>>
    /\ dry_run = TRUE /\ move = FALSE /\ ignore_dirs = {C_tmp}
    /\ stack = <<>> /\ root = SrcDir /\ files = <<>>
    /\ exif_batch_paths = <<>> /\ pending = <<>>
    /\ dry_run_history = Some(<<>>)
    /\ stats = ZeroStats /\ run = 1 /\ log = <<>> /\ seen = <<>>

runVars == <<fs, dirs, config, stack, root, files, exif_batch_paths, pending,
             dry_run_history, stats, run, log, seen, start>>

\* organize_files asks parse_filename first: a date from the name is the
\* file's date, and without one the file goes to the batch
NameDate ==
    /\ pc = "name"
    /\ \E date_taken \in {parse_filename(inFile)} :
          /\ outDate' = date_taken
          /\ pc' = IF date_taken # None THEN "dated" ELSE "batch"
    /\ UNCHANGED <<runVars, inFile, inTags, outPath, faults>>

\* get_date_taken_batch gives a file of the batch the date of its record,
\* or None
TagDate ==
    /\ pc = "batch"
    /\ outDate' = DateOfRecord(inTags)
    /\ pc' = "dated"
    /\ UNCHANGED <<runVars, inFile, inTags, outPath, faults>>

\* process_file computes new_path for the file and its date, in the locale
\* of the environment
PlaceDate ==
    /\ pc = "dated"
    /\ \E lc \in Locales, file_path \in {Join(src_dir, inFile)} :
          outPath' = Join(NewDirIn(lc, dest_dir, outDate), Basename(file_path))
    /\ pc' = "placed"
    /\ UNCHANGED <<runVars, inFile, inTags, outDate, faults>>

NextDate == NameDate \/ TagDate \/ PlaceDate

SpecDate == InitDate /\ [][NextDate]_vars

----------------------------------------------------------------------------
(* Failures of the metadata service and of the filesystem *)

\* the paths of a batch
PathsOf(batch) == {batch[i] : i \in 1..Len(batch)}

\* the paths of a batch at the positions keep, in the order of the batch
Kept(batch, keep) ==
    LET F[i \in 0..Len(batch)] ==
            IF i = 0 THEN <<>>
            ELSE IF i \in keep THEN Append(F[i - 1], batch[i]) ELSE F[i - 1]
    IN F[Len(batch)]

\* what the tool may answer for when it cannot read every file of the batch:
\* some of them, not all (its output for none of them is empty, which
\* json.loads refuses)
ShortAnswers(batch) ==
    {Kept(batch, keep) : keep \in (SUBSET (1..Len(batch))) \ {{}, 1..Len(batch)}}

\* get_metadata: json.loads raises ValueError, the message is written and
\* exit() ends the process; here in the call for a batch that got full
QueuedUnparsable ==
    /\ pc = "walk" /\ files # <<>>
    /\ parse_filename(Head(files)) = None
    /\ \E batch \in {Append(exif_batch_paths, Join(root, Head(files)))} :
          /\ Len(batch) >= EXIF_TOOL_BATCH_SIZE
          /\ exif_batch_paths' = batch
          /\ faults' = [faults EXCEPT !.unparsable = @ \cup PathsOf(batch)]
    /\ pc' = "exit"
    /\ UNCHANGED <<fs, dirs, config, stack, root, files, pending, dry_run_history,
                   stats, run, log, seen, start, dateVars>>

\* the same in the call for the batch that is left when the walk is over
TailUnparsable ==
    /\ pc = "walk" /\ files = <<>> /\ stack = <<>>
    /\ exif_batch_paths # <<>>
    /\ faults' = [faults EXCEPT !.unparsable = @ \cup PathsOf(exif_batch_paths)]
    /\ pc' = "exit"
    /\ UNCHANGED <<fs, dirs, config, stack, root, files, exif_batch_paths, pending,
                   dry_run_history, stats, run, log, seen, start, dateVars>>

\* get_metadata returns fewer records than it was given paths:
\* get_date_taken_batch makes one date of each, and zip pairs them with the
\* first paths of the batch; here for a batch that got full. (The batch left
\* when the walk is over holds fewer than EXIF_TOOL_BATCH_SIZE paths: a
\* single one here, and an answer short of it is the empty output of
\* TailUnparsable.)
QueuedShort ==
    /\ pc = "walk" /\ files # <<>>
    /\ parse_filename(Head(files)) = None
    /\ \E batch \in {Append(exif_batch_paths, Join(root, Head(files)))} :
          /\ Len(batch) >= EXIF_TOOL_BATCH_SIZE
          /\ exif_batch_paths' = batch
          /\ \E read \in ShortAnswers(batch) :
                pending' = Zip(batch, get_date_taken_batch(fs, read))
          /\ faults' = [faults EXCEPT !.short = @ \cup PathsOf(batch)]
    /\ pc' = "flush"
    /\ files' = Tail(files)
    /\ UNCHANGED <<fs, dirs, config, stack, root, dry_run_history, stats, run, log,
                   seen, start, dateVars>>

\* process_file when os.makedirs, shutil.move or shutil.copy2 raises OSError:
\* the counters have been incremented, the file is where it was, the
\* directory may have been made, and nothing catches the exception
process_file_raises(file_path, date_taken) ==
    \E new_dir \in {NewDir(dest_dir, date_taken)} :
    \E new_path \in {Join(new_dir, Basename(file_path))} :
    \E fixed_new_path \in {resolve_duplicate(fs, dirs, new_path, file_path, dry_run_history)} :
    \E st1 \in {IF date_taken = None THEN Bump(stats, "nodate") ELSE stats} :
    \E st2 \in {IF Some(new_path) # fixed_new_path THEN Bump(st1, "renamed") ELSE st1} :
       /\ ~dry_run
       /\ fixed_new_path # None
       /\ stats' = CountProcessed(st2)
       /\ log' = Append(log, [run |-> run, dry_run |-> dry_run, move |-> move,
                              file_path |-> file_path, date_taken |-> date_taken,
                              new_path |-> new_path, fixed_new_path |-> fixed_new_path,
                              clobbered |-> FALSE])
       /\ dirs' \in {dirs, dirs \cup Ancestors(new_dir)}
       /\ faults' = [faults EXCEPT !.placement = @ \cup {file_path}]
       /\ UNCHANGED <<fs, dry_run_history>>

\* the failure at the call for a file with a date in its name
DatedRaises ==
    /\ pc = "walk" /\ files # <<>>
    /\ \E date_taken \in {parse_filename(Head(files))} :
          /\ date_taken # None
          /\ \E file_path \in {Join(root, Head(files))} :
                process_file_raises(file_path, date_taken)
    /\ pc' = "crash"
    /\ UNCHANGED <<config, stack, root, files, exif_batch_paths, pending, run, seen,
                   start, dateVars>>

\* the failure at a call for a file of a batch
FlushRaises ==
    /\ pc \in {"flush", "tail"} /\ pending # <<>>
    /\ \E file_path \in {Head(pending)[1]}, date_taken \in {Head(pending)[2]} :
          process_file_raises(file_path, date_taken)
    /\ pc' = "crash"
    /\ UNCHANGED <<config, stack, root, files, exif_batch_paths, pending, run, seen,
                   start, dateVars>>

\* one invocation of the program in which the service and the filesystem may
\* fail
NextFault ==
    \/ WalkDir \/ FileDated \/ FileQueued \/ FlushStep \/ TailBatch \/ Finish
    \/ QueuedUnparsable \/ TailUnparsable \/ QueuedShort
    \/ DatedRaises \/ FlushRaises

SpecFault == Init /\ [][NextFault]_vars

\* the total of the final summary
Total == stats.processed + stats.nodate + stats.duplicates

----------------------------------------------------------------------------
(* Properties *)

Entries == {log[i] : i \in 1..Len(log)}
\* the calls of process_file of the current run
RunEntries == {e \in Entries : e.run = run}

\* C1: in a live move run, a file that process_file resolves as a duplicate
\* of itself (its source path is its desired path) is not deleted: it still
\* exists after the step.
C1_SelfDuplicateKept ==
    Len(log) > 0 =>
        LET e == log[Len(log)] IN
        (/\ ~e.dry_run /\ e.move
         /\ e.fixed_new_path = None
         /\ e.file_path = e.new_path) => e.file_path \in DOMAIN fs

\* C2: a path that resolve_duplicate returns is not claimed in the state of
\* the call (no file exists there in a live run, it is no key of the ledger in
\* a dry run), for every call process_file made and every call it could make
\* now; so no copy, move or ledger write replaced a file or a ledger entry.
C2_ResolvedPathFree ==
    /\ \A e \in Entries : ~e.clobbered
    /\ \A p \in DOMAIN fs : \A d \in {None, ParsedNames[NameDated]} :
         LET r == resolve_duplicate(fs, dirs, NewPath(dest_dir, d, p), p, dry_run_history)
         IN r # None =>
              IF dry_run THEN Val(r) \notin DOMAIN Val(dry_run_history)
              ELSE ~Exists(fs, dirs, Val(r))

\* C2 witness: in a dry run the resolver went past a claimed ledger entry, and
\* in a live run it went past two existing files to the suffix _2.
C2_Witness ==
    /\ \E e \in Entries : /\ e.dry_run
                          /\ e.fixed_new_path = Some(SuffixedPath(e.new_path, 1))
    /\ \E e \in Entries : /\ ~e.dry_run
                          /\ e.fixed_new_path = Some(SuffixedPath(e.new_path, 2))

\* the decisions of run r, in the order they were taken: for each file its
\* desired path and what resolve_duplicate returned for it
Decisions(r) ==
    LET es == SelectSeq(log, LAMBDA e : e.run = r)
    IN [i \in 1..Len(es) |-> <<es[i].file_path, es[i].new_path, es[i].fixed_new_path>>]

\* the files of run r in the order process_file was called for them
Handled(r) ==
    LET es == SelectSeq(log, LAMBDA e : e.run = r)
    IN [i \in 1..Len(es) |-> es[i].file_path]

Under(d, p) == Len(p) > Len(d) /\ SubSeq(p, 1, Len(d)) = d

\* the destination lies outside the source tree
Disjoint == ~Under(src_dir, dest_dir) /\ dest_dir # src_dir

\* C3: a dry run and a live run over the same source tree and the same
\* destination give every file the same desired path and the same decision
\* (here: a dry run followed by a live run of the same command line that
\* meets the files in the same order, with the destination outside the source
\* tree).
C3_DryLiveAgree ==
    (/\ pc = "done" /\ run = 2 /\ Disjoint
     /\ \A e \in Entries : e.run = 1 => e.dry_run
     /\ Handled(1) = Handled(2)) => Decisions(1) = Decisions(2)

\* C4: of two files of one run that are the only ones with their desired path,
\* the destination holding nothing at the start: with equal bytes the first
\* is placed (at the desired path) and the second is skipped as a duplicate;
\* with different bytes the first is placed at the desired path and the second
\* at the desired path with suffix _1.
C4_SameDestination ==
    (Disjoint /\ \A p \in DOMAIN fs0 : ~Under(dest_dir, p)) =>
        \A i \in 1..Len(log) : \A j \in (i + 1)..Len(log) :
            (/\ log[i].run = run /\ log[j].run = run
             /\ log[i].new_path = log[j].new_path
             /\ \A e \in RunEntries : e.new_path = log[i].new_path =>
                                        e.file_path \in {log[i].file_path, log[j].file_path})
            => /\ log[i].fixed_new_path = Some(log[i].new_path)
               /\ IF fs0[log[i].file_path].data = fs0[log[j].file_path].data
                  THEN log[j].fixed_new_path = None
                  ELSE log[j].fixed_new_path = Some(SuffixedPath(log[j].new_path, 1))

\* what C4 states, for pairs of files whose size or modification time differ
C4_ExceptEqualSignatures ==
    (Disjoint /\ \A p \in DOMAIN fs0 : ~Under(dest_dir, p)) =>
        \A i \in 1..Len(log) : \A j \in (i + 1)..Len(log) :
            (/\ log[i].run = run /\ log[j].run = run
             /\ log[i].new_path = log[j].new_path
             /\ Sig(fs0[log[i].file_path]) # Sig(fs0[log[j].file_path])
             /\ \A e \in RunEntries : e.new_path = log[i].new_path =>
                                        e.file_path \in {log[i].file_path, log[j].file_path})
            => /\ log[i].fixed_new_path = Some(log[i].new_path)
               /\ IF fs0[log[i].file_path].data = fs0[log[j].file_path].data
                  THEN log[j].fixed_new_path = None
                  ELSE log[j].fixed_new_path = Some(SuffixedPath(log[j].new_path, 1))

\* the run before the current one and the current one were both live copy runs
\* with the destination outside the source tree, and the current one is over
TwoCopyRuns ==
    /\ pc = "done" /\ run >= 2 /\ Disjoint
    /\ ~dry_run /\ ~move
    /\ \A e \in Entries : e.run = run - 1 => ~e.dry_run /\ ~e.move

\* C5: a second live copy run over the unchanged source creates no file
\* (processed stays 0, the filesystem is as the first run left it) and counts
\* as duplicates as many files as the first run placed or skipped.
C5_CopyIdempotent ==
    TwoCopyRuns =>
        /\ stats.processed = 0
        /\ fs = fs0
        /\ stats.duplicates = Cardinality({e \in Entries : e.run = run - 1})

\* C5 witness: the second run is over, and the first one had placed a file
\* under a suffixed name and skipped or placed another
C5_Witness ==
    /\ TwoCopyRuns
    /\ \E e \in Entries : /\ e.run = run - 1
                          /\ e.fixed_new_path = Some(SuffixedPath(e.new_path, 1))
    /\ stats.duplicates >= 2

\* C8: a dry run changes neither the files nor the directories, with and
\* without the move flag.
C8_DryRunNoChange == dry_run => fs = fs0 /\ dirs = dirs0

\* C8 witness: a dry run with the move flag that has skipped one file as a
\* duplicate and planned the placement of another
C8_Witness ==
    /\ dry_run /\ move
    /\ \E e1, e2 \in RunEntries : e1.fixed_new_path = None /\ e2.fixed_new_path # None

\* C9: in a live copy run every file that existed when the run started still
\* exists with its bytes and time; a file is gone only in a live move run.
C9_CopyKeepsSource ==
    /\ (~dry_run /\ ~move) => \A p \in DOMAIN fs0 : p \in DOMAIN fs /\ fs[p] = fs0[p]
    /\ (\E p \in DOMAIN fs0 : p \notin DOMAIN fs) => (move /\ ~dry_run)

\* C9 witness: a live copy run that has skipped one file as a duplicate and
\* copied another
C9_Witness ==
    /\ ~dry_run /\ ~move
    /\ \E e1, e2 \in RunEntries : e1.fixed_new_path = None /\ e2.fixed_new_path # None

CountersMatch ==
    /\ stats.processed = Cardinality({e \in RunEntries : e.fixed_new_path # None})
    /\ stats.duplicates = Cardinality({e \in RunEntries : e.fixed_new_path = None})

\* C10: processed counts the files placed and duplicates the files skipped,
\* so their sum is the number of files process_file has handled in the run;
\* each call adds one to exactly one of the two, and no counter decreases
\* while the program runs.
C10_CountedOnce ==
    /\ [](CountersMatch)
    /\ [][run' = run =>
            /\ \A k \in DOMAIN stats : stats'[k] >= stats[k]
            /\ log' # log =>
                 (stats'.processed + stats'.duplicates = stats.processed + stats.duplicates + 1)]_vars

\* C10 witness: a run that has placed a file and skipped another
C10_Witness == stats.processed >= 1 /\ stats.duplicates >= 1

\* the date a listed file must be processed with: that of its name, else
\* that of its own metadata record
DateOfFile(p) ==
    IF parse_filename(Basename(p)) # None THEN parse_filename(Basename(p))
    ELSE DateOfRecord(ExifOf(seen[p].data))

EachOnce ==
    /\ \A e \in RunEntries : e.file_path \in DOMAIN seen
    /\ \A e1, e2 \in RunEntries : e1.file_path = e2.file_path => e1 = e2
    /\ \A e \in RunEntries : e.date_taken = DateOfFile(e.file_path)
    /\ pc = "done" => \A p \in DOMAIN seen : \E e \in RunEntries : e.file_path = p

\* C7: every file the walk lists is handled by process_file exactly once by
\* the end of the run, which comes; a file with a date in its name at once, a
\* queued file when its batch is full or the walk is over, and with the date
\* of its own metadata record.
C7_EachFileOnce == [](EachOnce) /\ []<>(pc = "done")

\* C7 witness: a finished run that resolved a batch of two files with
\* different results (a date for one, none for the other)
C7_Witness ==
    /\ pc = "done"
    /\ \E e1, e2 \in RunEntries :
         /\ parse_filename(Basename(e1.file_path)) = None
         /\ parse_filename(Basename(e2.file_path)) = None
         /\ e1.date_taken = None /\ e2.date_taken # None

\* the years of the window: after 1900, the year validate_parsed_date names,
\* and not after 2026
AcceptedYears == 1901..2026

\* C6: a date the program accepts for a file, from its name or from its
\* metadata record, has a year of the window; a date outside it is treated
\* as absent.
C6_AcceptedYearInWindow ==
    (pc = "dated" /\ outDate # None) => Val(outDate).year \in AcceptedYears

\* C11: when the metadata service fails for a batch, no file of the batch is
\* placed in the no-date directory or counted in nodate, and the run does not
\* end like a run in which the service answered.
C11_ServiceFailureSurfaced ==
    /\ \A e \in RunEntries :
          e.file_path \in faults.unparsable \cup faults.short => e.date_taken # None
    /\ pc = "done" => faults.unparsable \cup faults.short = {}

\* what C11 states, for the failure that get_metadata catches (its output is
\* no JSON): the process exits at once and no file of the batch is handled
C11_UnparsableIsSurfaced ==
    /\ faults.unparsable # {} <=> pc = "exit"
    /\ \A e \in RunEntries : e.file_path \notin faults.unparsable

\* C12: a failure of the filesystem at one file's placement does not end the
\* run (the program goes on with the other files), and the file is not
\* counted in processed.
C12_PlacementFailureNotFatal ==
    /\ faults.placement # {} => pc \in {"walk", "flush", "tail", "done"}
    /\ stats.processed =
          Cardinality({e \in RunEntries : /\ e.fixed_new_path # None
                                          /\ e.file_path \notin faults.placement})

Letters == {"a", "b", "c", "d", "e", "f", "g", "h", "i", "j", "k", "l", "m",
            "n", "o", "p", "q", "r", "s", "t", "u", "v", "w", "x", "y", "z"}

\* <4-digit year> and <2-digit month>-<3 lowercase letters>
IsYearName(c) == Len(c) = 4 /\ \A i \in 1..4 : c[i] \in Digits
IsMonthName(c) ==
    /\ Len(c) = 6
    /\ c[1] \in Digits /\ c[2] \in Digits /\ c[3] = "-"
    /\ \A i \in 4..6 : c[i] \in Letters

\* C13: the desired path of a file is <dest>/<4-digit year>/<2-digit
\* month>-<lowercase 3-letter month abbreviation>/<basename> when a date was
\* resolved, and <dest>/<no-date directory>/<basename> when none was; the
\* basename is that of the source.
C13_DesiredPathShape ==
    pc = "placed" =>
        /\ Basename(outPath) = inFile
        /\ IF outDate = None
           THEN Dirname(outPath) = Join(dest_dir, no_date_dir)
           ELSE /\ Len(outPath) = Len(dest_dir) + 3
                /\ SubSeq(outPath, 1, Len(dest_dir)) = dest_dir
                /\ IsYearName(outPath[Len(dest_dir) + 1])
                /\ IntOf(outPath[Len(dest_dir) + 1]) = Val(outDate).year
                /\ IsMonthName(outPath[Len(dest_dir) + 2])
                /\ IntOf(SubSeq(outPath[Len(dest_dir) + 2], 1, 2)) = Val(outDate).month

\* what C13 states, in the C locale and for years of four digits
C13_ShapeInCLocale ==
    (/\ pc = "placed" /\ outDate # None /\ Val(outDate).year >= 1000
     /\ outPath = NewPath(dest_dir, outDate, Join(src_dir, inFile)))
    => /\ IsYearName(outPath[Len(dest_dir) + 1])
       /\ IsMonthName(outPath[Len(dest_dir) + 2])

\* C14: renamed counts the files of the run placed at a path other than
\* their desired path (placed with a numeric suffix); a file placed at its
\* desired path and a file skipped as a duplicate leave it unchanged.
C14_RenamedCountsSuffixed ==
    stats.renamed =
        Cardinality({e \in RunEntries : /\ e.fixed_new_path # None
                                        /\ e.fixed_new_path # Some(e.new_path)})

\* what the code counts: every call whose resolved path is not the desired
\* one, the duplicates (resolved to None) included
C14_RenamedCountsDifferent ==
    stats.renamed =
        Cardinality({e \in RunEntries : e.fixed_new_path # Some(e.new_path)})

\* C15: on normal completion the total of the summary is the number of files
\* the run handled, each counted once.
C15_TotalIsFilesHandled ==
    pc = "done" => Total = Cardinality(RunEntries)

\* what the code prints: the files without a date are counted twice
C15_TotalCountsNoDateTwice ==
    Total = Cardinality(RunEntries)
            + Cardinality({e \in RunEntries : e.date_taken = None})

\* the parse of the one value C16 speaks of: that of the first tag of
\* date_tags that is present and not empty
RECURSIVE FirstPresentDate(_, _)
FirstPresentDate(metadata, k) ==
    IF k > Len(date_tags) THEN None
    ELSE LET date_str == metadata[date_tags[k]] IN
         IF date_str = None \/ Val(date_str) = <<>> THEN FirstPresentDate(metadata, k + 1)
         ELSE Strptime(Val(date_str), ExifFormat)

\* the file's date came from its record
DatedByRecord == pc \in {"dated", "placed"} /\ parse_filename(inFile) = None

\* C16: the date get_date_taken_batch gives a record is the parse of the
\* value of the first tag, in the order of date_tags, that is present and
\* not empty; when that value does not parse, or no tag is present, the
\* file has no date.
C16_FirstPresentTagOnly ==
    DatedByRecord => outDate = FirstPresentDate(inTags, 1)

\* what the code does: the date is the first value that parses
C16_FirstParsableTag ==
    DatedByRecord =>
        \/ /\ outDate = None
           /\ \A k \in 1..Len(date_tags) :
                 \/ inTags[date_tags[k]] \in {None, Some(<<>>)}
                 \/ Strptime(Val(inTags[date_tags[k]]), ExifFormat) = None
        \/ \E k \in 1..Len(date_tags) :
              /\ inTags[date_tags[k]] \notin {None, Some(<<>>)}
              /\ outDate = Strptime(Val(inTags[date_tags[k]]), ExifFormat)
              /\ outDate # None
              /\ \A j \in 1..(k - 1) :
                    \/ inTags[date_tags[j]] \in {None, Some(<<>>)}
                    \/ Strptime(Val(inTags[date_tags[j]]), ExifFormat) = None

\* resolve_duplicate as C17 words it for a dry run: a path is claimed when
\* it is a key of the ledger, and the occupant is the source recorded there
RECURSIVE LedgerLoop(_, _, _, _, _, _)
LedgerLoop(f, ledger, orig_path, source_path, new_path, counter) ==
    IF new_path \notin DOMAIN ledger THEN Some(new_path)
    ELSE IF filecmp_cmp(f, source_path, ledger[new_path]) THEN None
    ELSE LedgerLoop(f, ledger, orig_path, source_path,
                    SuffixedPath(orig_path, counter), counter + 1)

\* a call of process_file made in this step, in a dry run
DryCall == dry_run /\ Len(log') = Len(log) + 1

\* C17: in a dry run resolve_duplicate decides that a path is claimed by
\* membership in the ledger alone, the first call of the run with its empty
\* ledger included, and compares with the source the ledger records for it;
\* the filesystem is not asked whether the path exists.
C17_DryRunLedgerAlone ==
    [][DryCall =>
         LET e == log'[Len(log')] IN
         e.fixed_new_path =
            LedgerLoop(fs, Val(dry_run_history), e.new_path, e.file_path, e.new_path, 1)]_vars

\* the same, for the calls made once the ledger holds an entry
C17_LedgerAloneOnceNotEmpty ==
    [][(DryCall /\ Truthy(dry_run_history)) =>
         LET e == log'[Len(log')] IN
         e.fixed_new_path =
            LedgerLoop(fs, Val(dry_run_history), e.new_path, e.file_path, e.new_path, 1)]_vars

\* the occupants of the claimed paths, as resolve_duplicate finds them
Occupants ==
    IF Truthy(dry_run_history)
    THEN {Val(dry_run_history)[p] : p \in DOMAIN Val(dry_run_history)} \cap DOMAIN fs
    ELSE DOMAIN fs

\* a call of process_file made in this step found a duplicate
DuplicateCall ==
    /\ Len(log') = Len(log) + 1
    /\ log'[Len(log')].fixed_new_path = None

\* C18: resolve_duplicate returns no path only when the bytes of the source
\* are those of the occupant of a claimed path, whatever the sizes and the
\* modification times: files of different content are never duplicates.
C18_DuplicateIsByteIdentical ==
    [][DuplicateCall =>
         \E occupant \in Occupants :
             fs[occupant].data = fs[log'[Len(log')].file_path].data]_vars

\* what filecmp.cmp's default gives: the duplicate has the bytes or the
\* signature (size and modification time) of an occupant
C18_DuplicateHasSameSignature ==
    [][DuplicateCall =>
         \E occupant \in Occupants :
             \/ fs[occupant].data = fs[log'[Len(log')].file_path].data
             \/ Sig(fs[occupant]) = Sig(fs[log'[Len(log')].file_path])]_vars

\* the contents of the files of the source tree when the run started
SourceContents == {fs0[p].data : p \in {q \in DOMAIN fs0 : Under(src_dir, q)}}
\* the contents of the files there are now
Contents == {fs[p].data : p \in DOMAIN fs}

\* C19: a live run loses no content: every content a file of the source
\* tree had when the run started is the content of some file when the run
\* ends, in copy and in move mode, wherever the destination lies and
\* whatever it holds.
C19_NoContentLost ==
    (pc = "done" /\ ~dry_run) => SourceContents \subseteq Contents

\* the same for the runs that do not move
C19_CopyLosesNoContent ==
    (~dry_run /\ ~move) => SourceContents \subseteq Contents

\* the group of a pattern matches at position p, between two characters
\* that are no digits or the ends of the name
BorderedAt(filename, p, pat) ==
    /\ p + Len(pat.group) - 1 <= Len(filename)
    /\ \A i \in 1..Len(pat.group) : ElemMatches(pat.group[i], filename[p + i - 1])
    /\ p = 1 \/ filename[p - 1] \notin Digits
    /\ \/ p + Len(pat.group) - 1 = Len(filename)
       \/ filename[p + Len(pat.group)] \notin Digits

\* parse_filename as C20 words it: the leftmost bordered group of each
\* pattern, the patterns in their order, a group that does not parse skipped
RECURSIVE BorderedParse(_, _)
BorderedParse(filename, k) ==
    IF k > Len(date_patterns) THEN None
    ELSE LET ps == {p \in 1..Len(filename) : BorderedAt(filename, p, date_patterns[k])} IN
         IF ps = {} THEN BorderedParse(filename, k + 1)
         ELSE LET p == CHOOSE q \in ps : \A o \in ps : q <= o
                  d == PatternParser(date_patterns[k],
                                     SubSeq(filename, p, p + Len(date_patterns[k].group) - 1))
              IN IF d = None THEN BorderedParse(filename, k + 1) ELSE d

\* C20: a pattern of parse_filename matches only a group of digits bordered
\* by characters that are no digits or by the ends of the name, never a part
\* of a longer run of digits; the result is the first date that parses, in
\* the order of the patterns, or no date.
C20_OnlyBorderedGroups ==
    [][pc = "name" => outDate' = BorderedParse(inFile, 1)]_vars

\* the case C20 singles out: a name with a bordered YYYYMMDD_HHMMSS group
\* that parses, and no group of the first pattern, has that date and time
C20_BorderedDateTimeWins ==
    [][(/\ pc = "name"
        /\ ReSearchGroup(date_patterns[1], inFile) = None
        /\ \E p \in 1..Len(inFile) : BorderedAt(inFile, p, date_patterns[2])
        /\ BorderedParse(inFile, 2) # None)
       => outDate' = BorderedParse(inFile, 2)]_vars

====
